---------------------------- MODULE Spec2Model ----------------------------
(***************************************************************************)
(* A model of csv2sql (src/csv2sql.go): the argument dispatcher of main,   *)
(* the CSV ingester, the query executor and the name sanitizer.            *)
(*                                                                         *)
(* Strings are sequences of one-character strings, so that HasSuffix,      *)
(* HasPrefix, TrimSuffix, Split and the rune map are computed as the code  *)
(* computes them.  The SQL engine (go-sqlite3) is an external dependency;  *)
(* it is modelled at the statements the code issues: drop table if exists, *)
(* create table, insert into ... values, and select * from <table>.        *)
(***************************************************************************)
EXTENDS Integers, Sequences, FiniteSets, TLC

VARIABLES
    args,            \* os.Args[1..] as far as main has read it
    HeadersOn,       \* package variable HeadersOn
    Replacing,       \* package variable Replacing
    WritePlainText,  \* package variable WritePlainText
    tableName,       \* main's local tableName (pending override)
    db,              \* main's local db: index into handles of the active handle
    handles,         \* every *sql.DB opened so far: [name, closed]
    dbs,             \* database name -> tables (table name -> [cols, rows])
    files,           \* every CSV file opened so far: [name, closed]
    stdinEOF,        \* os.Stdin has been read to its end
    stdout,          \* one entry per executed query: the rows written
    logs,            \* log.Printf warnings
    status,          \* "running", "done", "fatal" (log.Fatalf), "panic", "idle"
    exitCode,        \* process exit status, -1 while running
    fatalMsg,        \* the message of log.Fatalf
    trace,           \* history: the switch case each dispatched token took
    ingests,         \* history: each call of createTableFromReader
    path,            \* sanitizer run: the input string
    name1,           \* sanitizer run: sqlNameFromString(path)
    name2,           \* sanitizer run: sqlNameFromString(name1)
    pcS              \* sanitizer run: "off", "start", "once", "twice"

vars ==
    <<args, HeadersOn, Replacing, WritePlainText, tableName, db, handles,
      dbs, files, stdinEOF, stdout, logs, status, exitCode, fatalMsg, trace,
      ingests, path, name1, name2, pcS>>

mainVars ==
    <<args, HeadersOn, Replacing, WritePlainText, tableName, db, handles,
      dbs, files, stdinEOF, stdout, logs, status, exitCode, fatalMsg, trace,
      ingests>>

sanVars ==
    <<path, name1, name2, pcS>>

----------------------------------------------------------------------------
(* Bounds *)

\* the longest argument list (os.Args[1..]) explored
MaxArgs ==
    4

\* the longest input string given to the sanitizer run
MaxLen ==
    6

----------------------------------------------------------------------------
(* String literals of the source and of the explored inputs *)

\* "--plain-text"
ArgPlainText ==
    <<"-", "-", "p", "l", "a", "i", "n", "-", "t", "e", "x", "t">>
\* "--plain"
ArgPlain ==
    <<"-", "-", "p", "l", "a", "i", "n">>
\* "--text"
ArgText ==
    <<"-", "-", "t", "e", "x", "t">>
\* "--replace"
ArgReplace ==
    <<"-", "-", "r", "e", "p", "l", "a", "c", "e">>
\* "--db"
ArgDb ==
    <<"-", "-", "d", "b">>
\* "--table"
ArgTable ==
    <<"-", "-", "t", "a", "b", "l", "e">>
\* "--no-headers"
ArgNoHeaders ==
    <<"-", "-", "n", "o", "-", "h", "e", "a", "d", "e", "r", "s">>
\* "--no-header"
ArgNoHeader ==
    <<"-", "-", "n", "o", "-", "h", "e", "a", "d", "e", "r">>
\* "--headers"
ArgHeaders ==
    <<"-", "-", "h", "e", "a", "d", "e", "r", "s">>
\* "stdin"
ArgStdin ==
    <<"s", "t", "d", "i", "n">>
\* "--bogus": an argument no rule of the dispatcher matches
ArgBogus ==
    <<"-", "-", "b", "o", "g", "u", "s">>
\* ".csv"
SuffixCsv ==
    <<".", "c", "s", "v">>
\* ".sql"
SuffixSql ==
    <<".", "s", "q", "l">>
\* ".db"
SuffixDb ==
    <<".", "d", "b">>
\* "select"
PrefixSelect ==
    <<"s", "e", "l", "e", "c", "t">>
\* "file::memory:"
MemoryDb ==
    <<"f", "i", "l", "e", ":", ":", "m", "e", "m", "o", "r", "y", ":">>
\* "a.csv": a CSV file that exists
FileACsv ==
    <<"a", ".", "c", "s", "v">>
\* "q.sql": an SQL file that exists
FileQSql ==
    <<"q", ".", "s", "q", "l">>
\* "select * from a"
SelectFromA ==
    <<"s", "e", "l", "e", "c", "t", " ", "*", " ", "f", "r", "o", "m", " ", "a">>
\* "select * from stdin": the contents of q.sql
SelectFromStdin ==
    <<"s", "e", "l", "e", "c", "t", " ", "*", " ", "f", "r", "o", "m", " ",
      "s", "t", "d", "i", "n">>
\* "select * from a.csv": a query whose text ends in ".csv"
SelectFromACsv ==
    <<"s", "e", "l", "e", "c", "t", " ", "*", " ", "f", "r", "o", "m", " ",
      "a", ".", "c", "s", "v">>
\* "select * from ": the only query form the engine model evaluates
SelectStarFrom ==
    <<"s", "e", "l", "e", "c", "t", " ", "*", " ", "f", "r", "o", "m", " ">>

Letters ==
    {"a", "b", "c", "d", "e", "f", "g", "h", "i", "j", "k", "l", "m", "n",
     "o", "p", "q", "r", "s", "t", "u", "v", "w", "x", "y", "z"}

Digits ==
    {"0", "1", "2", "3", "4", "5", "6", "7", "8", "9"}

----------------------------------------------------------------------------
(* package strings *)

HasSuffix(s, suffix) ==
    /\ Len(s) >= Len(suffix)
    /\ SubSeq(s, Len(s) - Len(suffix) + 1, Len(s)) = suffix

HasPrefix(s, prefix) ==
    /\ Len(s) >= Len(prefix)
    /\ SubSeq(s, 1, Len(prefix)) = prefix

TrimSuffix(s, suffix) ==
    IF HasSuffix(s, suffix) THEN SubSeq(s, 1, Len(s) - Len(suffix)) ELSE s

\* parts[len(parts)-1] of strings.Split(s, "/"): what follows the last "/"
LastPart(s) ==
    LET slashes == {k \in 1..Len(s) : s[k] = "/"}
        last    == IF slashes = {} THEN 0
                   ELSE CHOOSE k \in slashes : \A j \in slashes : j <= k
    IN  SubSeq(s, last + 1, Len(s))

\* unicode.IsLetter
IsLetter(r) ==
    r \in Letters

\* unicode.IsNumber
IsNumber(r) ==
    r \in Digits

----------------------------------------------------------------------------
(* sqlNameFromString *)

\* a slip that lets "." through the rune map
SanitizeRuneKeepsDot(r) ==
    IF IsLetter(r) \/ IsNumber(r) \/ r = "." THEN r ELSE "_"

\* the function given to strings.Map
SanitizeRune(r) ==
    IF IsLetter(r) \/ IsNumber(r) THEN r ELSE "_"

sqlNameFromString(p) ==
    LET trimmed == TrimSuffix(p, SuffixCsv)
        part    == LastPart(trimmed)
    IN  [k \in 1..Len(part) |-> SanitizeRune(part[k])]

mapStrings(ss) ==
    [k \in 1..Len(ss) |-> sqlNameFromString(ss[k])]

----------------------------------------------------------------------------
(* The SQL engine behind database/sql, at the statements the code issues *)

Range(s) ==
    {s[k] : k \in 1..Len(s)}

\* sql.NullString{String, Valid}; a nil parameter is stored as NULL
Null ==
    [String |-> <<>>, Valid |-> FALSE]

Text(s) ==
    [String |-> s, Valid |-> TRUE]

\* the tables of a database that holds none
NoTables ==
    [n \in {} |-> <<>>]

\* a name the engine accepts unquoted in "create table <name> (...)"
IsIdent(s) ==
    /\ Len(s) > 0
    /\ \A k \in 1..Len(s) : s[k] \in Letters \cup Digits \cup {"_"}
    /\ s[1] \notin Digits

\* db.Exec("drop table if exists <tn>")
ExecDrop(tables, tn) ==
    IF ~IsIdent(tn)
    THEN [err |-> "syntax error", tables |-> tables]
    ELSE [err |-> "",
          tables |-> [n \in DOMAIN tables \ {tn} |-> tables[n]]]

\* db.Exec("create table <tn> (<fieldNames>)")
ExecCreate(tables, tn, fieldNames) ==
    IF ~IsIdent(tn)
    THEN [err |-> "syntax error", tables |-> tables]
    ELSE IF tn \in DOMAIN tables
    THEN [err |-> "table already exists", tables |-> tables]
    ELSE IF \E k \in 1..Len(fieldNames) : ~IsIdent(fieldNames[k])
    THEN [err |-> "syntax error", tables |-> tables]
    ELSE IF Cardinality(Range(fieldNames)) # Len(fieldNames)
    THEN [err |-> "duplicate column name", tables |-> tables]
    ELSE [err |-> "",
          tables |-> (tn :> [cols |-> fieldNames, rows |-> <<>>]) @@ tables]

\* the row "insert into <tn> (<fieldNames>) values (?, ...)" stores in a
\* table with columns cols: a column the statement does not name is NULL
StoredRow(cols, fieldNames, values) ==
    [c \in 1..Len(cols) |->
        IF cols[c] \in Range(fieldNames)
        THEN values[CHOOSE k \in 1..Len(fieldNames) : fieldNames[k] = cols[c]]
        ELSE Null]

\* db.Exec(insertStmt, values...): one placeholder per field name
ExecInsert(tables, tn, fieldNames, values) ==
    IF ~IsIdent(tn) \/ tn \notin DOMAIN tables
    THEN [err |-> "no such table", tables |-> tables]
    ELSE IF ~(Range(fieldNames) \subseteq Range(tables[tn].cols))
    THEN [err |-> "no such column", tables |-> tables]
    ELSE IF Len(values) # Len(fieldNames)
    THEN [err |-> "wrong number of arguments", tables |-> tables]
    ELSE [err |-> "",
          tables |-> [tables EXCEPT ![tn].rows =
              Append(@, StoredRow(tables[tn].cols, fieldNames, values))]]

\* db.Query(query), rows.Columns() and the rows of the cursor, for a query
\* "select * from <table>"; any other text is an error of the engine
Query(tables, query) ==
    LET name == SubSeq(query, Len(SelectStarFrom) + 1, Len(query))
    IN  IF /\ HasPrefix(query, SelectStarFrom)
           /\ IsIdent(name)
           /\ name \in DOMAIN tables
        THEN [err |-> "", columns |-> tables[name].cols,
              rows |-> tables[name].rows]
        ELSE [err |-> "query error", columns |-> <<>>, rows |-> <<>>]

----------------------------------------------------------------------------
(* createTableFromReader *)

\* a slip that pads a short record with empty strings instead of nil
ValuesPaddedWithEmpty(record, fieldCount) ==
    [k \in 1..(IF Len(record) > fieldCount THEN Len(record) ELSE fieldCount)
        |-> IF k <= Len(record) THEN Text(record[k]) ELSE Text(<<>>)]

\* the values of one insert: the record's fields, then nil up to fieldCount
Values(record, fieldCount) ==
    [k \in 1..(IF Len(record) > fieldCount THEN Len(record) ELSE fieldCount)
        |-> IF k <= Len(record) THEN Text(record[k]) ELSE Null]

\* a slip that never drops the table
DropIfReplacingNever(tables, tn, replacing) ==
    [err |-> "", tables |-> tables]

\* if Replacing { drop table if exists }
DropIfReplacing(tables, tn, replacing) ==
    IF replacing THEN ExecDrop(tables, tn) ELSE [err |-> "", tables |-> tables]

\* a slip that treats every create-table error as fatal
CreateErrorIsFatalAlways(err) ==
    err # ""

\* err != nil && !strings.Contains(err.Error(), "already exists")
CreateErrorIsFatal(err) ==
    err # "" /\ err # "table already exists"

\* the loop over records[1:]: stops at the first insert that fails
RECURSIVE InsertRecords(_, _, _, _, _)
InsertRecords(tables, tn, fieldNames, records, k) ==
    IF k > Len(records)
    THEN [err |-> "", tables |-> tables]
    ELSE LET r == ExecInsert(tables, tn, fieldNames,
                             Values(records[k], Len(fieldNames)))
         IN  IF r.err # "" THEN r
             ELSE InsertRecords(r.tables, tn, fieldNames, records, k + 1)

\* input: [err, records], what reader.ReadAll() returns
createTableFromReader(tables, tn, input, replacing) ==
    IF input.err
    THEN [status |-> "fatal", msg |-> "failed to read all of CSV",
          tables |-> tables, warned |-> FALSE, created |-> FALSE]
    ELSE IF Len(input.records) = 0
    THEN \* records[0]: index out of range
         [status |-> "panic", msg |-> "index out of range",
          tables |-> tables, warned |-> FALSE, created |-> FALSE]
    ELSE
      LET fieldNames == mapStrings(input.records[1])
          dropped    == DropIfReplacing(tables, tn, replacing)
          made       == ExecCreate(dropped.tables, tn, fieldNames)
          inserted   == InsertRecords(made.tables, tn, fieldNames,
                                      input.records, 2)
      IN  IF dropped.err # ""
          THEN [status |-> "fatal", msg |-> "error dropping table",
                tables |-> dropped.tables, warned |-> FALSE,
                created |-> FALSE]
          ELSE IF CreateErrorIsFatal(made.err)
          THEN [status |-> "fatal", msg |-> "error creating table",
                tables |-> made.tables, warned |-> FALSE, created |-> FALSE]
          ELSE IF inserted.err # ""
          THEN [status |-> "fatal", msg |-> "error inserting record",
                tables |-> inserted.tables, warned |-> made.err # "",
                created |-> made.err = ""]
          ELSE [status |-> "ok", msg |-> "",
                tables |-> inserted.tables, warned |-> made.err # "",
                created |-> made.err = ""]

----------------------------------------------------------------------------
(* executeQuery *)

asStrings(ss) ==
    [k \in 1..Len(ss) |-> ss[k].String]

\* a slip that writes the column names whatever HeadersOn is
WrittenAlwaysHeader(columns, rows, headersOn) ==
    <<columns>> \o [k \in 1..Len(rows) |-> asStrings(rows[k])]

\* the rows given to writer.Write, in order
Written(columns, rows, headersOn) ==
    (IF headersOn THEN <<columns>> ELSE <<>>)
        \o [k \in 1..Len(rows) |-> asStrings(rows[k])]

executeQuery(tables, query, headersOn, plain) ==
    LET q == Query(tables, query)
    IN  IF q.err # ""
        THEN [status |-> "fatal", msg |-> "error executing query",
              out |-> <<>>]
        ELSE [status |-> "ok", msg |-> "",
              out |-> <<[format  |-> IF plain THEN "plain" ELSE "csv",
                         columns |-> q.columns,
                         data    |-> [k \in 1..Len(q.rows) |->
                                         asStrings(q.rows[k])],
                         written |-> Written(q.columns, q.rows, headersOn)]>>]

----------------------------------------------------------------------------
(* The explored inputs: argument tokens, files, CSV contents *)

Tokens ==
    {ArgPlain, ArgReplace, ArgDb, ArgTable, ArgNoHeaders, ArgNoHeader,
     ArgHeaders, FileACsv, FileQSql, ArgStdin, SelectFromA, SelectFromACsv,
     ArgBogus}

\* the paths os.Open finds
ExistingCsv ==
    {FileACsv}

\* the paths os.ReadFile finds, with their contents
SqlFiles ==
    (FileQSql :> SelectFromStdin)

CellA ==
    <<"a">>
CellBCsv ==
    <<"b", ".", "c", "s", "v">>
D1 ==
    <<"1">>
D2 ==
    <<"2">>
D3 ==
    <<"3">>
D4 ==
    <<"4">>

\* what csv.Reader.ReadAll may parse out of a source: no record at all; a
\* two-column header with a full and a short row; a one-column table; a
\* two-column header with a full row and then a row that is too long
CsvContents ==
    { <<>>,
      << <<CellA, CellBCsv>>, <<D1, D2>>, <<D3>> >>,
      << <<CellA>>, <<D4>> >>,
      << <<CellA, CellBCsv>>, <<D1, D2>>, <<D1, D2, D3>> >> }

\* the outcomes of reader.ReadAll(): records, or a read error
ReadOutcomes ==
    {[err |-> FALSE, records |-> r] : r \in CsvContents}
        \cup {[err |-> TRUE, records |-> <<>>]}

\* the characters of the strings given to the sanitizer run
SanAlphabet ==
    {"c", "s", "v", "1", ".", "/"}

SanInputs ==
    UNION {[1..n -> SanAlphabet] : n \in 0..MaxLen}

----------------------------------------------------------------------------
(* main *)

(***************************************************************************)
(* os.Args is an input.  The model reveals it as the loop reads it: args   *)
(* holds os.Args[1..] up to and including the token the loop reads last    *)
(* (and the value a --db or --table consumed with it); each case draws its *)
(* token from Tokens, and Return is the case i = len(os.Args), where the   *)
(* list has ended.  What the loop has not read has no effect on the state. *)
(***************************************************************************)

\* defer db.Close() binds the handle db holds when the defer statement runs
DeferredDb ==
    1

\* the loop index of the token now dispatched, os.Args[i]
i ==
    Len(args) + 1

\* the loop is at os.Args[i] and that argument is arg
Reading(arg) ==
    /\ status = "running"
    /\ Len(args) < MaxArgs
    /\ arg \in Tokens

\* the switch of main: the first case that matches
Case(arg) ==
    IF arg \in {ArgPlainText, ArgPlain, ArgText} THEN "plain"
    ELSE IF arg = ArgReplace THEN "replace"
    ELSE IF arg = ArgDb THEN "db"
    ELSE IF arg = ArgTable THEN "table"
    ELSE IF arg \in {ArgNoHeaders, ArgNoHeader} THEN "noheaders"
    ELSE IF arg = ArgHeaders THEN "headers"
    ELSE IF HasSuffix(arg, SuffixCsv) THEN "csv"
    ELSE IF HasSuffix(arg, SuffixSql) THEN "sql"
    ELSE IF arg = ArgStdin THEN "stdin"
    ELSE IF HasPrefix(arg, PrefixSelect) THEN "select"
    ELSE "unknown"

\* history: the token at os.Args[i] took this case; query is the text
\* given to executeQuery, if any
Dispatched(arg, case, query) ==
    trace' = Append(trace,
                 [at |-> i, arg |-> arg, case |-> case, query |-> query])

\* log.Fatalf: the message, then os.Exit(1); no deferred call runs
Fatalf(msg) ==
    /\ status' = "fatal"
    /\ exitCode' = 1
    /\ fatalMsg' = msg

ActiveDb ==
    handles[db].name

Init ==
    /\ args = <<>>
    /\ HeadersOn = TRUE
    /\ Replacing = FALSE
    /\ WritePlainText = FALSE
    /\ tableName = <<>>
    /\ db = 1
    /\ handles = <<[name |-> MemoryDb, closed |-> FALSE]>>
    /\ dbs = (MemoryDb :> NoTables)
    /\ files = <<>>
    /\ stdinEOF = FALSE
    /\ stdout = <<>>
    /\ logs = <<>>
    /\ status = "running"
    /\ exitCode = -1
    /\ fatalMsg = ""
    /\ trace = <<>>
    /\ ingests = <<>>
    /\ path = <<>>
    /\ name1 = <<>>
    /\ name2 = <<>>
    /\ pcS = "off"

PlainTextCase ==
    \E arg \in Tokens :
        /\ Reading(arg)
        /\ Case(arg) = "plain"
        /\ args' = Append(args, arg)
        /\ Dispatched(arg, "plain", <<>>)
        /\ WritePlainText' = TRUE
        /\ UNCHANGED <<HeadersOn, Replacing, tableName, db, handles, dbs,
                       files, stdinEOF, stdout, logs, status, exitCode,
                       fatalMsg, ingests, sanVars>>

ReplaceCase ==
    \E arg \in Tokens :
        /\ Reading(arg)
        /\ Case(arg) = "replace"
        /\ args' = Append(args, arg)
        /\ Dispatched(arg, "replace", <<>>)
        /\ Replacing' = TRUE
        /\ UNCHANGED <<HeadersOn, WritePlainText, tableName, db, handles,
                       dbs, files, stdinEOF, stdout, logs, status, exitCode,
                       fatalMsg, ingests, sanVars>>

\* case arg == "--db": fatal when the list ends at the flag, else the next
\* argument is the database name
DbCase ==
    \E arg \in Tokens :
        /\ Reading(arg)
        /\ Case(arg) = "db"
        /\ Dispatched(arg, "db", <<>>)
        /\ \/ /\ args' = Append(args, arg)
              /\ Fatalf("--db requires an argument")
              /\ UNCHANGED <<db, handles, dbs>>
           \/ \E value \in Tokens :
                LET dbName == IF HasSuffix(value, SuffixDb)
                              THEN value
                              ELSE value \o SuffixDb
                IN  /\ Len(args) + 2 <= MaxArgs
                    /\ args' = args \o <<arg, value>>
                    /\ handles' = Append(handles,
                                     [name |-> dbName, closed |-> FALSE])
                    /\ db' = Len(handles) + 1
                    /\ dbs' = IF dbName \in DOMAIN dbs THEN dbs
                              ELSE (dbName :> NoTables) @@ dbs
                    /\ UNCHANGED <<status, exitCode, fatalMsg>>
        /\ UNCHANGED <<HeadersOn, Replacing, WritePlainText, tableName,
                       files, stdinEOF, stdout, logs, ingests, sanVars>>

\* case arg == "--table"
TableCase ==
    \E arg \in Tokens :
        /\ Reading(arg)
        /\ Case(arg) = "table"
        /\ Dispatched(arg, "table", <<>>)
        /\ \/ /\ args' = Append(args, arg)
              /\ Fatalf("--table requires an argument")
              /\ UNCHANGED tableName
           \/ \E value \in Tokens :
                /\ Len(args) + 2 <= MaxArgs
                /\ args' = args \o <<arg, value>>
                /\ tableName' = value
                /\ UNCHANGED <<status, exitCode, fatalMsg>>
        /\ UNCHANGED <<HeadersOn, Replacing, WritePlainText, db, handles,
                       dbs, files, stdinEOF, stdout, logs, ingests, sanVars>>

NoHeadersCase ==
    \E arg \in Tokens :
        /\ Reading(arg)
        /\ Case(arg) = "noheaders"
        /\ args' = Append(args, arg)
        /\ Dispatched(arg, "noheaders", <<>>)
        /\ HeadersOn' = FALSE
        /\ UNCHANGED <<Replacing, WritePlainText, tableName, db, handles,
                       dbs, files, stdinEOF, stdout, logs, status, exitCode,
                       fatalMsg, ingests, sanVars>>

HeadersCase ==
    \E arg \in Tokens :
        /\ Reading(arg)
        /\ Case(arg) = "headers"
        /\ args' = Append(args, arg)
        /\ Dispatched(arg, "headers", <<>>)
        /\ HeadersOn' = TRUE
        /\ UNCHANGED <<Replacing, WritePlainText, tableName, db, handles,
                       dbs, files, stdinEOF, stdout, logs, status, exitCode,
                       fatalMsg, ingests, sanVars>>

\* the call createTableFromReader(db, tn, input, ...) and how it ends: it
\* returns, or log.Fatalf exits, or records[0] panics; a panic runs the
\* deferred calls (main's db.Close()) and exits with status 2
Ingest(tn, input) ==
    LET before == dbs[ActiveDb]
        r      == createTableFromReader(before, tn, input, Replacing)
    IN  /\ dbs' = [dbs EXCEPT ![ActiveDb] = r.tables]
        /\ ingests' = Append(ingests,
              [at        |-> i,
               db        |-> ActiveDb,
               table     |-> tn,
               records   |-> input.records,
               replacing |-> Replacing,
               existed   |-> tn \in DOMAIN before,
               status    |-> r.status,
               created   |-> r.created,
               warned    |-> r.warned])
        /\ logs' = IF r.warned
                   THEN Append(logs, [at |-> i, msg |-> "already exists",
                                      table |-> tn])
                   ELSE logs
        /\ status' = IF r.status = "ok" THEN "running" ELSE r.status
        /\ exitCode' = IF r.status = "ok" THEN exitCode
                       ELSE IF r.status = "fatal" THEN 1 ELSE 2
        /\ fatalMsg' = r.msg
        /\ handles' = IF r.status = "panic"
                      THEN [handles EXCEPT ![DeferredDb].closed = TRUE]
                      ELSE handles

\* case strings.HasSuffix(arg, ".csv"), with createTableFromCSV
CsvCase ==
    \E arg \in Tokens :
        /\ Reading(arg)
        /\ Case(arg) = "csv"
        /\ args' = Append(args, arg)
        /\ Dispatched(arg, "csv", <<>>)
        /\ LET fileName == arg
               tn       == IF tableName = <<>>
                           THEN sqlNameFromString(fileName)
                           ELSE tableName
           IN  IF fileName \notin ExistingCsv
               THEN /\ Fatalf("error opening the CSV file")
                    /\ tableName' = tn
                    /\ UNCHANGED <<handles, dbs, files, logs, ingests>>
               ELSE \E input \in ReadOutcomes :
                      /\ Ingest(tn, input)
                      \* defer csvFile.Close(): skipped by log.Fatalf only
                      /\ files' = Append(files,
                            [name |-> fileName,
                             closed |-> status' # "fatal"])
                      \* tableName = "" once the call has returned
                      /\ tableName' = IF status' = "running" THEN <<>>
                                      ELSE tn
        /\ UNCHANGED <<HeadersOn, Replacing, WritePlainText, db, stdinEOF,
                       stdout, sanVars>>

\* the call executeQuery(db, query) and how it ends
RunQuery(query) ==
    LET r == executeQuery(dbs[ActiveDb], query, HeadersOn, WritePlainText)
    IN  /\ stdout' = stdout \o [k \in 1..Len(r.out) |->
                                  [at |-> i] @@ r.out[k]]
        /\ IF r.status = "ok"
           THEN UNCHANGED <<status, exitCode, fatalMsg>>
           ELSE Fatalf(r.msg)

\* case strings.HasSuffix(arg, ".sql"), with readSQLFile
SqlCase ==
    \E arg \in Tokens :
        /\ Reading(arg)
        /\ Case(arg) = "sql"
        /\ args' = Append(args, arg)
        /\ IF arg \in DOMAIN SqlFiles
           THEN /\ Dispatched(arg, "sql", SqlFiles[arg])
                /\ RunQuery(SqlFiles[arg])
           ELSE /\ Dispatched(arg, "sql", <<>>)
                /\ Fatalf("error reading SQL file")
                /\ UNCHANGED stdout
        /\ UNCHANGED <<HeadersOn, Replacing, WritePlainText, tableName, db,
                       handles, dbs, files, stdinEOF, logs, ingests,
                       sanVars>>

\* case arg == "stdin": os.Stdin yields records once, then nothing
StdinCase ==
    \E arg \in Tokens :
        /\ Reading(arg)
        /\ Case(arg) = "stdin"
        /\ args' = Append(args, arg)
        /\ Dispatched(arg, "stdin", <<>>)
        /\ LET tn == IF tableName = <<>> THEN ArgStdin ELSE tableName
           IN  /\ \E input \in IF stdinEOF
                               THEN {[err |-> FALSE, records |-> <<>>]}
                               ELSE ReadOutcomes :
                     Ingest(tn, input)
               /\ tableName' = tn
        /\ stdinEOF' = TRUE
        /\ UNCHANGED <<HeadersOn, Replacing, WritePlainText, db, files,
                       stdout, sanVars>>

\* case strings.HasPrefix(arg, "select")
SelectCase ==
    \E arg \in Tokens :
        /\ Reading(arg)
        /\ Case(arg) = "select"
        /\ args' = Append(args, arg)
        /\ Dispatched(arg, "select", arg)
        /\ RunQuery(arg)
        /\ UNCHANGED <<HeadersOn, Replacing, WritePlainText, tableName, db,
                       handles, dbs, files, stdinEOF, logs, ingests,
                       sanVars>>

\* a slip that skips an argument no rule matches
UnknownCaseSkips ==
    \E arg \in Tokens :
        /\ Reading(arg)
        /\ Case(arg) = "unknown"
        /\ args' = Append(args, arg)
        /\ Dispatched(arg, "unknown", <<>>)
        /\ UNCHANGED <<HeadersOn, Replacing, WritePlainText, tableName, db,
                       handles, dbs, files, stdinEOF, stdout, logs, status,
                       exitCode, fatalMsg, ingests, sanVars>>

\* default: log.Fatalf("unknown argument: %s", arg)
UnknownCase ==
    \E arg \in Tokens :
        /\ Reading(arg)
        /\ Case(arg) = "unknown"
        /\ args' = Append(args, arg)
        /\ Dispatched(arg, "unknown", <<>>)
        /\ Fatalf("unknown argument")
        /\ UNCHANGED <<HeadersOn, Replacing, WritePlainText, tableName, db,
                       handles, dbs, files, stdinEOF, stdout, logs, ingests,
                       sanVars>>

\* i = len(os.Args): main returns, and the deferred db.Close() runs on the
\* handle it bound
Return ==
    /\ status = "running"
    /\ status' = "done"
    /\ exitCode' = 0
    /\ handles' = [handles EXCEPT ![DeferredDb].closed = TRUE]
    /\ UNCHANGED <<args, HeadersOn, Replacing, WritePlainText, tableName,
                   db, dbs, files, stdinEOF, stdout, logs, fatalMsg, trace,
                   ingests, sanVars>>

Next ==
    \/ PlainTextCase
    \/ ReplaceCase
    \/ DbCase
    \/ TableCase
    \/ NoHeadersCase
    \/ HeadersCase
    \/ CsvCase
    \/ SqlCase
    \/ StdinCase
    \/ SelectCase
    \/ UnknownCase
    \/ Return

Spec ==
    Init /\ [][Next]_vars

----------------------------------------------------------------------------
(* The sanitizer on its own: sqlNameFromString applied once, then again *)

InitSan ==
    /\ args = <<>>
    /\ HeadersOn = TRUE
    /\ Replacing = FALSE
    /\ WritePlainText = FALSE
    /\ tableName = <<>>
    /\ db = 1
    /\ handles = <<[name |-> MemoryDb, closed |-> FALSE]>>
    /\ dbs = (MemoryDb :> NoTables)
    /\ files = <<>>
    /\ stdinEOF = FALSE
    /\ stdout = <<>>
    /\ logs = <<>>
    /\ status = "idle"
    /\ exitCode = -1
    /\ fatalMsg = ""
    /\ trace = <<>>
    /\ ingests = <<>>
    /\ path \in SanInputs
    /\ name1 = <<>>
    /\ name2 = <<>>
    /\ pcS = "start"

SanitizeOnce ==
    /\ pcS = "start"
    /\ name1' = sqlNameFromString(path)
    /\ pcS' = "once"
    /\ UNCHANGED <<mainVars, path, name2>>

SanitizeTwice ==
    /\ pcS = "once"
    /\ name2' = sqlNameFromString(name1)
    /\ pcS' = "twice"
    /\ UNCHANGED <<mainVars, path, name1>>

NextSan ==
    \/ SanitizeOnce
    \/ SanitizeTwice

SpecSan ==
    InitSan /\ [][NextSan]_vars

----------------------------------------------------------------------------
(* Properties *)

Last(s) ==
    s[Len(s)]

\* the table an ingestion wrote to, as it is now
TableOf(e) ==
    dbs[e.db][e.table]

\* what a data record of a CSV source with n header columns is as a table
\* row: its fields as text, null in each missing trailing position
PaddedRow(record, n) ==
    [k \in 1..n |-> IF k <= Len(record) THEN Text(record[k]) ELSE Null]

\* the data records of a CSV source (all but the header), each padded
PaddedData(records) ==
    [k \in 1..(Len(records) - 1) |->
        PaddedRow(records[k + 1], Len(records[1]))]

\* a data record as a row of a table with columns cols, when the header
\* names are names: the field under each named column, null elsewhere
RowIn(cols, names, record) ==
    [c \in 1..Len(cols) |->
        IF \E k \in 1..Len(names) : names[k] = cols[c] /\ k <= Len(record)
        THEN Text(record[CHOOSE k \in 1..Len(names) : names[k] = cols[c]])
        ELSE Null]

\* C1: immediately after the dispatcher has processed an ingestion token
\* (a *.csv token or stdin) the pending table name is empty, and an
\* ingestion token with no --table since the previous ingestion token uses
\* its own derived name (the sanitized file name, or stdin).
C1_OverrideResetAfterIngestion ==
    /\ (/\ trace # <<>>
        /\ Last(trace).case \in {"csv", "stdin"}
        /\ status \in {"running", "done"})
           => tableName = <<>>
    /\ \A n \in 1..Len(ingests) :
          LET e == ingests[n]
              k == CHOOSE j \in 1..Len(trace) : trace[j].at = e.at
              p == {j \in 1..(k - 1) : trace[j].case \in {"csv", "stdin"}}
          IN  (/\ p # {}
               /\ \A j \in 1..(k - 1) :
                     trace[j].case = "table" => \E m \in p : m > j)
                 => e.table = IF trace[k].case = "stdin" THEN ArgStdin
                              ELSE sqlNameFromString(trace[k].arg)

\* C2: every dispatched token that begins with "select" is given to the
\* query executor as it is; it never takes the *.csv or the *.sql case.
C2_SelectTokensAreQueries ==
    \A k \in 1..Len(trace) :
        HasPrefix(trace[k].arg, PrefixSelect)
            => trace[k].case = "select" /\ trace[k].query = trace[k].arg

\* C3: after an ingestion made with --replace in effect has returned, the
\* table of that name holds exactly the data rows of that ingestion under
\* the sanitized header columns; the rows of an earlier ingestion of the
\* same source under the same name are gone.
C3_ReplaceLeavesLatestRows ==
    (ingests # <<>> /\ Last(ingests).status = "ok" /\ Last(ingests).replacing)
        => LET e == Last(ingests)
           IN  /\ e.table \in DOMAIN dbs[e.db]
               /\ TableOf(e).cols = mapStrings(e.records[1])
               /\ TableOf(e).rows = PaddedData(e.records)

\* C3 witness: the same source ingested twice under one name, the second
\* time with --replace, with data rows in it.
C3_Witness ==
    /\ Len(ingests) >= 2
    /\ LET e0 == ingests[Len(ingests) - 1]
           e1 == Last(ingests)
       IN  /\ e0.status = "ok" /\ e1.status = "ok"
           /\ e1.replacing /\ e1.existed
           /\ e0.db = e1.db /\ e0.table = e1.table
           /\ e0.records = e1.records
           /\ Len(e1.records) >= 2

\* C4: without --replace, a second ingestion of the same source under the
\* same table name is not fatal: the "already exists" failure is logged as
\* a warning, the run goes on, and the table then ends with the data rows
\* of both ingestions.
C4_TwiceWithoutReplaceAccumulates ==
    \A n \in 2..Len(ingests) :
        LET e0 == ingests[n - 1]
            e1 == ingests[n]
            m  == Len(e1.records) - 1
        IN  (/\ e0.status = "ok"
             /\ ~e1.replacing
             /\ e0.db = e1.db /\ e0.table = e1.table
             /\ e0.records = e1.records)
            => /\ e1.status = "ok"
               /\ e1.warned
               /\ \E l \in 1..Len(logs) :
                     logs[l].at = e1.at /\ logs[l].table = e1.table
               /\ Last(trace).at = e1.at => status \in {"running", "done"}
               /\ n = Len(ingests) =>
                     LET T == TableOf(e1)
                         D == [k \in 1..m |->
                                 RowIn(T.cols, mapStrings(e1.records[1]),
                                       e1.records[k + 1])]
                     IN  /\ Len(T.rows) >= 2 * m
                         /\ SubSeq(T.rows, Len(T.rows) - 2 * m + 1,
                                   Len(T.rows)) = D \o D

\* C4 witness: the same source with data rows ingested twice without
\* --replace, and a query run after the second ingestion.
C4_Witness ==
    /\ Len(ingests) = 2
    /\ ~ingests[2].replacing
    /\ ingests[1].status = "ok" /\ ingests[2].status = "ok"
    /\ ingests[1].db = ingests[2].db
    /\ ingests[1].table = ingests[2].table
    /\ ingests[1].records = ingests[2].records
    /\ Len(ingests[2].records) >= 2
    /\ \E o \in 1..Len(stdout) : stdout[o].at > ingests[2].at

NoRule(arg) ==
    /\ arg \notin {ArgPlainText, ArgPlain, ArgText, ArgReplace, ArgDb,
                   ArgTable, ArgNoHeaders, ArgNoHeader, ArgHeaders, ArgStdin}
    /\ ~HasSuffix(arg, SuffixCsv)
    /\ ~HasSuffix(arg, SuffixSql)
    /\ ~HasPrefix(arg, PrefixSelect)

\* C6: when the dispatcher reaches a token no rule matches, the process
\* ends at once with a non-zero status and "unknown argument": that token
\* is the last one read and dispatched, whatever came before it has had
\* its effect, and no step is ever taken once the process has ended.
C6_UnknownArgumentIsFatal ==
    /\ [](\A k \in 1..Len(trace) :
            NoRule(trace[k].arg)
               => /\ k = Len(trace)
                  /\ trace[k].at = Len(args)
                  /\ status = "fatal"
                  /\ exitCode > 0
                  /\ fatalMsg = "unknown argument")
    /\ [][status = "running"]_vars

\* C6 witness: an unknown token reached after an ingestion and a query.
C6_Witness ==
    /\ fatalMsg = "unknown argument"
    /\ NoRule(Last(args))
    /\ ingests # <<>>
    /\ stdout # <<>>

\* header emission as the argument list alone decides it for the token at
\* os.Args[target]: on by default, set by each header flag before it; the
\* value that follows --db or --table is not a flag
RECURSIVE HeadersExpected(_, _, _)
HeadersExpected(pos, target, cur) ==
    IF pos >= target THEN cur
    ELSE IF args[pos] \in {ArgDb, ArgTable}
    THEN HeadersExpected(pos + 2, target, cur)
    ELSE IF args[pos] \in {ArgNoHeaders, ArgNoHeader}
    THEN HeadersExpected(pos + 1, target, FALSE)
    ELSE IF args[pos] = ArgHeaders
    THEN HeadersExpected(pos + 1, target, TRUE)
    ELSE HeadersExpected(pos + 1, target, cur)

\* C7: the output of every query starts with the column-name row if and
\* only if the most recent header flag before the query token is --headers
\* or there is none; otherwise its first row is its first data row.  A
\* header flag after the query token does not change that output.
C7_HeaderRowFollowsLatestFlag ==
    \A o \in 1..Len(stdout) :
        stdout[o].written =
            (IF HeadersExpected(1, stdout[o].at, TRUE)
             THEN <<stdout[o].columns>> ELSE <<>>) \o stdout[o].data

\* C7 witness: a query with data rows run after --no-headers, whose first
\* output row is its first data row, and a --headers flag after it.
C7_Witness ==
    \E o \in 1..Len(stdout) :
        /\ stdout[o].data # <<>>
        /\ stdout[o].written = stdout[o].data
        /\ \E k \in 1..(stdout[o].at - 1) :
              args[k] \in {ArgNoHeaders, ArgNoHeader}
        /\ \E k \in (stdout[o].at + 1)..Len(args) : args[k] = ArgHeaders

\* C8: the sanitizer is idempotent, and its result holds only letters,
\* digits and underscores.
C8_SanitizerIdempotent ==
    /\ pcS \in {"once", "twice"} =>
          \A k \in 1..Len(name1) : name1[k] \in Letters \cup Digits \cup {"_"}
    /\ pcS = "twice" => name2 = name1

\* C8 witness: a path with a directory, a dot in the file name and the
\* .csv extension, sanitized twice.
C8_Witness ==
    /\ pcS = "twice"
    /\ HasSuffix(path, SuffixCsv)
    /\ "/" \in Range(path)
    /\ name1 # <<>>
    /\ name1 # path

\* C9: when main has returned, every database handle opened during the
\* run and every CSV file opened has been closed.
C9_EverythingClosedAtExit ==
    status = "done"
        => /\ \A h \in 1..Len(handles) : handles[h].closed
           /\ \A f \in 1..Len(files) : files[f].closed

\* C10: createTableFromReader never indexes records[0] of an empty record
\* list: it returns or ends through log.Fatalf.
C10_NoIndexOutOfRange ==
    status # "panic"

=============================================================================
